---- MODULE Spec2Model ----
(***************************************************************************)
(* Action-sequence cache (src/src/actions/action_cache.py) and the         *)
(* plan-execute-verify loop (src/src/task/executor.py).                    *)
(*                                                                         *)
(* Strings are modelled as sequences of whitespace-separated words.        *)
(* Optional values are sequences of length <= 1: <<>> is Python's None.    *)
(* Rates are integers in percent (1.0 = 100).  Time is counted in ticks    *)
(* of 15 minutes.                                                          *)
(***************************************************************************)
EXTENDS Integers, Sequences, FiniteSets, TLC

VARIABLES current_user_id, db_conn, redis, db,
          pc, request, cached_sequence, actions, i, action_results,
          retry_count, last_url, success,
          plannerCalls, storeCalls, emptyPlans, planFailures, handed, ret, stored, got,
          owners, ended, page, admin, co, calc

cacheVars == <<current_user_id, db_conn, redis, db>>
execVars == <<pc, request, cached_sequence, actions, i, action_results,
              retry_count, last_url, success,
              plannerCalls, storeCalls, emptyPlans, planFailures, handed, ret>>
vars == <<current_user_id, db_conn, redis, db,
          pc, request, cached_sequence, actions, i, action_results,
          retry_count, last_url, success,
          plannerCalls, storeCalls, emptyPlans, planFailures, handed, ret, stored, got,
          owners, ended, page, admin, co, calc>>

----------------------------------------------------------------------------
(* Bounds *)

MaxRows == 2

MaxPlannerCalls == 4

(* Program constants *)

SESSION_TIMEOUT == 2

max_retries == 3

MinScore == 8

MinSuccessRate == 80

(* datetime.now(), in days: a last_used of -31 is 31 days old *)
Today == 0

----------------------------------------------------------------------------
(* Optional values *)

None == <<>>

Some(x) == <<x>>

Max(a, b) == IF a >= b THEN a ELSE b

----------------------------------------------------------------------------
(* Words and tasks *)

Users == {"default_user", "u2"}

Tasks == { <<"find", "gbp/usd">>,
           <<"Search", "for", "the", "gbp/usd">>,
           <<"close", "the", "gbp/usd">>,
           <<"find", "gbp/usd", "rate">> }

(* str.lower() on one word *)
Lower(w) == CASE w = "Search" -> "search"
              [] w = "Find" -> "find"
              [] w = "Open" -> "open"
              [] OTHER -> w

LowerAll(ws) == [k \in 1..Len(ws) |-> Lower(ws[k])]

(* ':' in w, w.split(':')[1] and w.split(':')[-1] for one word *)
HasColon(w) == w \in {"pair:eurusd"}

ColonSecond(w) == CASE w = "pair:eurusd" -> "eurusd" [] OTHER -> w

ColonLast(w) == CASE w = "pair:eurusd" -> "eurusd" [] OTHER -> w

(* action_verb_groups: the group of a two-word phrase and of a single word *)
PhraseGroup(a, b) ==
    CASE <<a, b>> \in {<<"go", "to">>, <<"navigate", "to">>, <<"browse", "to">>} -> "navigation"
      [] <<a, b>> \in {<<"search", "for">>, <<"look", "for">>} -> "search"
      [] OTHER -> "none"

WordGroup(w) ==
    CASE w \in {"open", "visit", "load", "access"} -> "navigation"
      [] w \in {"find", "locate", "get", "show", "display", "check", "view"} -> "search"
      [] w \in {"click", "press", "select", "choose", "pick"} -> "interaction"
      [] w \in {"type", "enter", "input", "fill", "write"} -> "input"
      [] OTHER -> "none"

(* canonical_forms: one list element, possibly holding a space *)
canonical_forms(g) ==
    CASE g = "navigation" -> "go to"
      [] g = "search" -> "find"
      [] g = "interaction" -> "click"
      [] g = "input" -> "type"

(* the loop "for i, word in enumerate(words)" over the list it mutates *)
RECURSIVE ReplaceVerbs(_, _)
ReplaceVerbs(words, k) ==
    IF k > Len(words) THEN words
    ELSE LET word == words[k]
             g2 == IF k < Len(words) THEN PhraseGroup(word, words[k+1]) ELSE "none"
             w1 == IF g2 # "none"
                   THEN SubSeq(words, 1, k-1) \o <<canonical_forms(g2)>>
                        \o SubSeq(words, k+2, Len(words))
                   ELSE words
             g1 == WordGroup(word)
             w2 == IF g1 # "none" THEN [w1 EXCEPT ![k] = canonical_forms(g1)] ELSE w1
         IN ReplaceVerbs(w2, k+1)

(* " ".join(words) followed by .split(): an element holding a space splits *)
RECURSIVE Resplit(_)
Resplit(words) ==
    IF words = <<>> THEN <<>>
    ELSE (IF Head(words) = "go to" THEN <<"go", "to">> ELSE <<Head(words)>>)
         \o Resplit(Tail(words))

noise_words == {"the", "a", "an", "for", "of", "in", "on", "at", "to", "and", "or"}

RECURSIVE Filter(_, _)
Filter(words, drop) ==
    IF words = <<>> THEN <<>>
    ELSE (IF Head(words) \in drop THEN <<>> ELSE <<Head(words)>>)
         \o Filter(Tail(words), drop)

_normalize_task(task) ==
    Filter(Resplit(ReplaceVerbs(LowerAll(task), 1)), noise_words)

WordSet(ws) == {ws[k] : k \in 1..Len(ws)}

action_verbs == {"go to", "find", "click", "type"}

(* entities and verbs of a normalized task *)
Entities(norm) == {ColonSecond(w) : w \in {x \in WordSet(norm) : HasColon(x)}}

Verbs(norm) == WordSet(norm) \cap action_verbs

(* key.split(':')[-1] of a key "kind:user:name" *)
LastSegment(name) ==
    LET cs == {k \in 1..Len(name) : HasColon(name[k])}
    IN IF cs = {} THEN name
       ELSE LET j == CHOOSE k \in cs : \A m \in cs : m <= k
            IN <<ColonLast(name[j])>> \o SubSeq(name, j+1, Len(name))

(* word_score as the fraction num/den; den = 0 is Python's ZeroDivisionError *)
word_score(task1, task2) ==
    LET words1 == WordSet(_normalize_task(task1))
        words2 == WordSet(_normalize_task(task2))
    IN [num |-> Cardinality(words1 \cap words2),
        den |-> Max(Cardinality(words1), Cardinality(words2))]

verb_score(task1, task2) ==
    LET words1 == WordSet(_normalize_task(task1))
        words2 == WordSet(_normalize_task(task2))
    IN IF (words1 \cap action_verbs) \cap (words2 \cap action_verbs) # {} THEN 1 ELSE 0

(* the score with the verb gate left out *)
similarity_without_verb_gate(task1, task2) == word_score(task1, task2)

_calculate_task_similarity(task1, task2) ==
    LET ws == word_score(task1, task2)
        vs == verb_score(task1, task2)
    IN IF vs > 0 THEN [num |-> ws.num * vs, den |-> ws.den]
       ELSE [num |-> 0, den |-> ws.den]

(* a > b and a >= 0.8 on fractions with positive denominators *)
ScoreGt(a, b) == a.num * b.den > b.num * a.den

ScoreOk(a) == 10 * a.num >= MinScore * a.den

----------------------------------------------------------------------------
(* Action, ActionSequence and their serialized forms *)

(* timestamp: "none" (None), "datetime" (a datetime object), "iso" (str) *)
Action(type, selector, url, text, timestamp) ==
    [type |-> type, selector |-> selector, url |-> url, text |-> text,
     timestamp |-> timestamp]

NavA(ts) == Action("navigate", "", "https://x/gbp-usd", "", ts)

ClickA(ts) == Action("click", "#btn", "", "", ts)

TypeA(ts) == Action("type", "#in", "", "abc", ts)

(* Action.to_dict: isoformat() of the timestamp when it is truthy; a str
   timestamp has no isoformat() and raises AttributeError *)
to_dict_raises(a) == a.timestamp = "iso"

to_dict(a) == [a EXCEPT !.timestamp = IF @ = "datetime" THEN "iso" ELSE @]

ToDictAll(as) == [k \in 1..Len(as) |-> to_dict(as[k])]

AnyToDictRaises(as) == \E k \in 1..Len(as) : to_dict_raises(as[k])

(* json.dumps(asdict(action)): a datetime is not JSON serializable *)
AsdictDumpRaises(as) == \E k \in 1..Len(as) : as[k].timestamp = "datetime"

(* the fields compared by the round-trip property *)
Visible(a) == [type |-> a.type, selector |-> a.selector, url |-> a.url, text |-> a.text]

VisibleAll(as) == [k \in 1..Len(as) |-> Visible(as[k])]

(* action_success_rates: position k holds the entry of key k-1; keys are
   ints in memory and strings after a JSON round trip; overall is the
   'overall' key *)
NoStats == [keys |-> "int", stats |-> <<>>, overall |-> None]

JsonStats(s) == [s EXCEPT !.keys = "str"]

(* a metadata dict: each key present (Some) or missing (None) *)
EmptyMeta == [action_success_rates |-> None, partial_successes |-> None,
              success_rate |-> None]

(* dict.update *)
MetaUpdate(m, o) ==
    [action_success_rates |-> IF o.action_success_rates # None
                              THEN o.action_success_rates ELSE m.action_success_rates,
     partial_successes |-> IF o.partial_successes # None
                           THEN o.partial_successes ELSE m.partial_successes,
     success_rate |-> IF o.success_rate # None THEN o.success_rate ELSE m.success_rate]

JsonMeta(m) ==
    [m EXCEPT !.action_success_rates = IF @ = None THEN None ELSE Some(JsonStats(@[1]))]

(* ActionSequence.__init__ *)
ActionSequence(task_key, as, success_rate, execution_count, metadata) ==
    [task_key |-> task_key, actions |-> as, success_rate |-> success_rate,
     execution_count |-> execution_count, metadata |-> metadata,
     action_success_rates |-> NoStats, partial_successes |-> <<>>]

(* a per-action result handed to store_sequence_with_results: a bool, or
   the executor's result dict; "if success:" tests its truthiness *)
BoolResult(b) == [kind |-> "bool", val |-> b]

DictResult(b) == [kind |-> "dict", val |-> b]

ResultTruthy(r) == IF r.kind = "dict" THEN TRUE ELSE r.val

Min(a, b) == IF a <= b THEN a ELSE b

(* statistics with one entry for every result, paired with an action or not *)
update_action_success_per_result(as, results) ==
    [keys |-> "int",
     stats |-> [k \in 1..Len(results) |->
                  [success |-> IF ResultTruthy(results[k]) THEN 1 ELSE 0, total |-> 1]],
     overall |-> None]

(* update_action_success over zip(actions, action_results) *)
update_action_success(as, results) ==
    [keys |-> "int",
     stats |-> [k \in 1..Min(Len(as), Len(results)) |->
                  [success |-> IF ResultTruthy(results[k]) THEN 1 ELSE 0, total |-> 1]],
     overall |-> None]

RECURSIVE successful_indices(_, _, _)
successful_indices(as, results, k) ==
    IF k > Min(Len(as), Len(results)) THEN <<>>
    ELSE (IF ResultTruthy(results[k]) THEN <<k - 1>> ELSE <<>>)
         \o successful_indices(as, results, k + 1)

(* a record for every run with a succeeded action, a full success too *)
record_partial_success_always(as, results) ==
    LET si == successful_indices(as, results, 1)
    IN IF si # <<>>
       THEN <<[timestamp |-> "datetime", successful_actions |-> si]>>
       ELSE <<>>

(* record_partial_success when some but not all actions succeeded *)
record_partial_success(as, results) ==
    LET si == successful_indices(as, results, 1)
    IN IF si # <<>> /\ Len(si) < Len(as)
       THEN <<[timestamp |-> "datetime", successful_actions |-> si]>>
       ELSE <<>>

(* a running average that gives the confirmed run no credit *)
running_average_without_credit(success_rate, execution_count) ==
    (success_rate * (execution_count - 1)) \div execution_count

(* the running average of line 260, in percent *)
running_average(success_rate, execution_count) ==
    (success_rate * (execution_count - 1) + 100) \div execution_count

(* the ActionSequence built by store_sequence_with_results *)
BuildSequence(task, as, results, user_confirmed) ==
    LET s0 == ActionSequence(task, as, 0, 0, EmptyMeta)
        n == s0.execution_count + 1
    IN [s0 EXCEPT !.action_success_rates = update_action_success(as, results),
                  !.partial_successes = record_partial_success(as, results),
                  !.execution_count = n,
                  !.success_rate = IF user_confirmed
                                   THEN running_average(s0.success_rate, n)
                                   ELSE s0.success_rate]

IsoPartials(ps) == [k \in 1..Len(ps) |-> [ps[k] EXCEPT !.timestamp = "iso"]]

----------------------------------------------------------------------------
(* The Volatile Store (Redis) *)

(* the key "kind:user:name" *)
Key(kind, user, name) == [kind |-> kind, user |-> user, name |-> name]

(* a stored value with its remaining time to live: data is the JSON of a
   sequence entry, members the elements of a set (an index set, or the
   single sequence key a normalized entry points to) *)
Entry(data, members) == [data |-> data, members |-> members, ttl |-> SESSION_TIMEOUT]

(* SET key value EX SESSION_TIMEOUT *)
RedisSet(r, k, e) == [x \in (DOMAIN r) \cup {k} |-> IF x = k THEN e ELSE r[x]]

(* SADD key member; EXPIRE key SESSION_TIMEOUT *)
RedisSaddExpire(r, k, m) ==
    RedisSet(r, k, Entry(None, (IF k \in DOMAIN r THEN r[k].members ELSE {}) \cup {m}))

(* EXPIRE on each of the keys that exist *)
RedisExpire(r, ks) ==
    [x \in DOMAIN r |-> IF x \in ks THEN [r[x] EXCEPT !.ttl = SESSION_TIMEOUT] ELSE r[x]]

RedisDelete(r, ks) == [x \in (DOMAIN r) \ ks |-> r[x]]

(* scan_iter("sequence:{user}:*") *)
SequenceKeys(r, user) == {k \in DOMAIN r : k.kind = "sequence" /\ k.user = user}

RECURSIVE SaddAll(_, _, _)
SaddAll(r, ks, m) ==
    IF ks = {} THEN r
    ELSE LET k == CHOOSE x \in ks : TRUE
         IN SaddAll(RedisSaddExpire(r, k, m), ks \ {k}, m)

(* an index that writes the normalized entry only *)
index_normalized_only(r, user, task, sequence_key) ==
    RedisSet(r, Key("normalized", user, _normalize_task(task)), Entry(None, {sequence_key}))

(* _index_task_semantics *)
_index_task_semantics(r, user, task, sequence_key) ==
    LET normalized == _normalize_task(task)
        entities == Entities(normalized)
        verbs == Verbs(normalized)
        keys == {Key("entity", user, <<e>>) : e \in entities}
                \cup {Key("verb", user, <<v>>) : v \in verbs}
    IN RedisSet(SaddAll(r, keys, sequence_key),
                Key("normalized", user, normalized), Entry(None, {sequence_key}))

(* an extend that falls back to the default user when no session is active *)
extend_session_default_user(r, cur) ==
    IF cur # None
    THEN RedisExpire(r, {Key("session", cur[1], <<>>)} \cup SequenceKeys(r, cur[1]))
    ELSE RedisSet(r, Key("session", "default_user", <<>>), Entry(None, {}))

(* extend_session *)
extend_session(r, cur) ==
    IF cur # None
    THEN RedisExpire(r, {Key("session", cur[1], <<>>)} \cup SequenceKeys(r, cur[1]))
    ELSE r

----------------------------------------------------------------------------
(* The Durable Store (SQLite table action_sequences) *)

(* INSERT OR REPLACE: a row replaces the rows with an equal primary key
   (task_key, user_id); a NULL user_id is distinct from every other NULL *)
InsertOrReplace(rows, row) ==
    Append(SelectSeq(rows, LAMBDA x : ~(x.task_key = row.task_key /\ row.user_id # None
                                        /\ x.user_id = row.user_id)),
           row)

(* _store_in_db: the statement names no user_id column, so it is NULL;
   any exception (to_dict on a str timestamp, or a failing write when
   db_ok is false) is logged and swallowed *)
_store_in_db(rows, sequence, db_ok) ==
    IF AnyToDictRaises(sequence.actions) \/ ~db_ok THEN rows
    ELSE InsertOrReplace(rows,
           [task_key |-> sequence.task_key,
            user_id |-> None,
            actions |-> ToDictAll(sequence.actions),
            success_rate |-> sequence.success_rate,
            execution_count |-> sequence.execution_count,
            last_used |-> Today,
            metadata |-> JsonMeta(MetaUpdate(
                [action_success_rates |-> Some(sequence.action_success_rates),
                 partial_successes |-> Some(IsoPartials(sequence.partial_successes)),
                 success_rate |-> None],
                sequence.metadata))])

(* metadata.get('success_rate', 0) *)
MetaSuccessRate(m) == IF m.success_rate = None THEN 0 ELSE m.success_rate[1]

(* metadata.get('action_success_rates', {}).get('overall', 0) *)
MetaOverall(m) ==
    IF m.action_success_rates = None THEN 0
    ELSE IF m.action_success_rates[1].overall = None THEN 0
         ELSE m.action_success_rates[1].overall[1]

(* a gate on the similarity alone *)
qualifies_on_score_only(score, best_score, success_rate) ==
    ScoreGt(score, best_score) /\ ScoreOk(score)

(* the similarity and success-rate gate of the two lookups *)
Qualifies(score, best_score, success_rate) ==
    ScoreGt(score, best_score) /\ ScoreOk(score) /\ success_rate >= MinSuccessRate

(* a lookup result: the sequence (or None), and where it was found *)
Found(seq, from, stored_as) == [seq |-> Some(seq), from |-> from, stored_as |-> stored_as]

NotFound == [seq |-> None, from |-> "none", stored_as |-> <<>>]

(* the loop over the rows of _get_similar_task_from_db; a ZeroDivisionError
   in the score is caught and the lookup returns None *)
RECURSIVE DbScan(_, _, _, _, _)
DbScan(rows, k, task, best_score, best_match) ==
    IF k > Len(rows) THEN best_match
    ELSE LET row == rows[k]
             score == _calculate_task_similarity(LowerAll(task), LowerAll(row.task_key))
             success_rate == MetaSuccessRate(row.metadata)
         IN IF score.den = 0 THEN NotFound
            ELSE IF Qualifies(score, best_score, success_rate)
                 THEN DbScan(rows, k + 1, task, score,
                             Found(ActionSequence(row.task_key, row.actions,
                                                  success_rate, 0, EmptyMeta),
                                   "db", row.task_key))
                 ELSE DbScan(rows, k + 1, task, best_score, best_match)

_get_similar_task_from_db(rows, conn, task) ==
    IF ~conn THEN NotFound
    ELSE DbScan(rows, 1, task, [num |-> 0, den |-> 1], NotFound)

----------------------------------------------------------------------------
(* Maintenance of the Durable Store *)

(* a clear that also empties the Volatile Store *)
clear_both_stores(r, rows) == [redis |-> RedisDelete(r, DOMAIN r), db |-> <<>>]

(* clear: DELETE FROM action_sequences over a connection of its own *)
clear(r, rows) == [redis |-> r, db |-> <<>>]

(* a cleanup that always uses the default age of 30 days *)
cleanup_default_age(rows, max_age_days) ==
    SelectSeq(rows, LAMBDA x : ~(x.last_used < Today - 30))

(* cleanup: DELETE ... WHERE last_used < now - max_age_days *)
cleanup(rows, max_age_days) ==
    SelectSeq(rows, LAMBDA x : ~(x.last_used < Today - max_age_days))

RECURSIVE SumOf(_, _, _)
SumOf(rows, k, field) ==
    IF k > Len(rows) THEN 0
    ELSE (IF field = "success_rate" THEN rows[k].success_rate ELSE rows[k].execution_count)
         + SumOf(rows, k + 1, field)

(* SQL AVG as a fraction; NULL over an empty table *)
Avg(rows, field) ==
    IF rows = <<>> THEN None ELSE Some([num |-> SumOf(rows, 1, field), den |-> Len(rows)])

(* get_stats: the row count and the averages over every row of the table *)
get_stats(rows) ==
    [total_sequences |-> Len(rows),
     avg_success_rate |-> Avg(rows, "success_rate"),
     avg_executions |-> Avg(rows, "execution_count")]

(* the attributes that __init__ creates on the cache object *)
InstanceAttributes == {"db_path", "db", "redis", "current_session", "current_user_id"}

(* update_stats: its first statement reads self.sequences; the method
   touches neither store *)
update_stats(task, old_success_rate, succeeded) ==
    [raised |-> "sequences" \notin InstanceAttributes]

----------------------------------------------------------------------------
(* get_similar_task *)

(* the candidates of the semantic search that hold a sequence entry *)
Candidates(r, user, normalized) ==
    LET keys == {Key("entity", user, <<e>>) : e \in Entities(normalized)}
                \cup {Key("verb", user, <<v>>) : v \in Verbs(normalized)}
    IN UNION {r[k].members : k \in keys \cap DOMAIN r}

CandidateScore(task, candidate_key) ==
    _calculate_task_similarity(task, LastSegment(candidate_key.name))

(* a candidate that can end the loop as best_sequence: it passes the gate
   against best_score = 0 and no passing candidate scores higher (among
   equal scores the set's iteration order decides) *)
BestCandidates(r, task, cands) ==
    LET live == {c \in cands : c \in DOMAIN r /\ r[c].data # None}
        ok == {c \in live : Qualifies(CandidateScore(task, c), [num |-> 0, den |-> 1],
                                      MetaOverall(r[c].data[1].metadata))}
    IN {c \in ok : \A d \in ok : ~ScoreGt(CandidateScore(task, d), CandidateScore(task, c))}

(* the sequence built from a Volatile Store entry *)
FromRedis(r, task, k) ==
    Found(ActionSequence(task, r[k].data[1].actions,
                         MetaOverall(r[k].data[1].metadata), 0, r[k].data[1].metadata),
          "redis", k.name)

(* json.loads of a missing entry raises and the handler of the lookup
   returns None *)
missing_entry_raises(rest) == {NotFound}

(* "if cached_data:" passes over a key that has no entry in the Volatile
   Store, and the lookup goes on with what is left to do *)
missing_entry_skipped(rest) == rest

(* the results get_similar_task can return in the store state (r, rows) *)
get_similar_task(r, rows, conn, cur, task) ==
    IF cur = None THEN {NotFound}
    ELSE
    LET user == cur[1]
        normalized_task == _normalize_task(task)
        exact_key == Key("normalized", user, normalized_task)
        sequence_key == IF exact_key \in DOMAIN r THEN r[exact_key].members ELSE {}
        fallback == {_get_similar_task_from_db(rows, conn, task)}
    IN IF sequence_key = {}
       THEN LET cands == Candidates(r, user, normalized_task)
                live == {c \in cands : c \in DOMAIN r /\ r[c].data # None}
                best == BestCandidates(r, task, cands)
                rest == IF \E c \in live : CandidateScore(task, c).den = 0 THEN {NotFound}
                        ELSE IF best # {} THEN {FromRedis(r, task, c) : c \in best}
                        ELSE fallback
            IN IF cands \ live # {} THEN missing_entry_skipped(rest) ELSE rest
       ELSE LET sk == CHOOSE k \in sequence_key : TRUE
            IN IF sk \in DOMAIN r /\ r[sk].data # None
               THEN IF MetaOverall(r[sk].data[1].metadata) >= MinSuccessRate
                    THEN {FromRedis(r, task, sk)}
                    ELSE fallback
               ELSE missing_entry_skipped(fallback)

(* the stages get_similar_task consults, in order, in the store state r:
   the exact normalized key first; the index candidates only under
   "if not sequence_key"; the database after a stage that returned
   nothing *)
Stages(r, cur, task) ==
    IF cur = None THEN <<>>
    ELSE
    LET user == cur[1]
        normalized_task == _normalize_task(task)
        exact_key == Key("normalized", user, normalized_task)
        sequence_key == IF exact_key \in DOMAIN r THEN r[exact_key].members ELSE {}
    IN IF sequence_key = {}
       THEN LET cands == Candidates(r, user, normalized_task)
                live == {c \in cands : c \in DOMAIN r /\ r[c].data # None}
            IN IF \E c \in live : CandidateScore(task, c).den = 0
                  \/ BestCandidates(r, task, cands) # {}
               THEN <<"exact", "candidates">>
               ELSE <<"exact", "candidates", "durable">>
       ELSE LET sk == CHOOSE k \in sequence_key : TRUE
            IN IF sk \in DOMAIN r /\ r[sk].data # None
                  /\ MetaOverall(r[sk].data[1].metadata) >= MinSuccessRate
               THEN <<"exact">>
               ELSE <<"exact", "durable">>

----------------------------------------------------------------------------
(* Cache operations as functions of the store state *)

(* the Volatile Store entry written by store_sequence_with_results *)
SequenceData(sequence) ==
    [actions |-> ToDictAll(sequence.actions),
     metadata |-> JsonMeta([action_success_rates |-> Some(sequence.action_success_rates),
                            partial_successes |-> Some(IsoPartials(sequence.partial_successes)),
                            success_rate |-> None])]

(* a store that undoes its Volatile Store writes and raises when the
   Durable Store write fails *)
store_undone_on_db_failure(r, rows, conn, cur, task, as, results, user_confirmed, db_ok) ==
    IF cur = None \/ AnyToDictRaises(as)
    THEN [redis |-> r, db |-> rows, db_conn |-> conn, raised |-> FALSE]
    ELSE LET sequence == BuildSequence(task, as, results, user_confirmed)
             cache_key == Key("sequence", cur[1], _normalize_task(task))
             r1 == RedisSet(r, cache_key, Entry(Some(SequenceData(sequence)), {}))
         IN [redis |-> IF db_ok THEN _index_task_semantics(r1, cur[1], task, cache_key)
                       ELSE r,
             db |-> _store_in_db(rows, sequence, db_ok),
             db_conn |-> TRUE,
             raised |-> ~db_ok]

(* store_sequence_with_results: the stores after the call and whether it
   raised.  Without a session it returns at once; an exception (to_dict on a
   str timestamp) is caught before anything is written; db_ok tells whether
   the Durable Store write of this call goes through *)
store_sequence_with_results(r, rows, conn, cur, task, as, results, user_confirmed, db_ok) ==
    IF cur = None \/ AnyToDictRaises(as)
    THEN [redis |-> r, db |-> rows, db_conn |-> conn, raised |-> FALSE]
    ELSE LET sequence == BuildSequence(task, as, results, user_confirmed)
             cache_key == Key("sequence", cur[1], _normalize_task(task))
             r1 == RedisSet(r, cache_key, Entry(Some(SequenceData(sequence)), {}))
         IN [redis |-> _index_task_semantics(r1, cur[1], task, cache_key),
             db |-> _store_in_db(rows, sequence, db_ok),
             db_conn |-> TRUE,
             raised |-> FALSE]

(* _load_user_sequences: the rows of the user, each SET under its task_key *)
RECURSIVE _load_user_sequences(_, _, _, _)
_load_user_sequences(r, rows, k, user) ==
    IF k > Len(rows) THEN r
    ELSE IF rows[k].user_id = Some(user)
         THEN _load_user_sequences(
                  RedisSet(r, Key("sequence", user, rows[k].task_key),
                           Entry(Some([actions |-> rows[k].actions,
                                       metadata |-> rows[k].metadata]), {})),
                  rows, k + 1, user)
         ELSE _load_user_sequences(r, rows, k + 1, user)

(* the flush loop of end_session over the scanned keys, in scan order *)
RECURSIVE FlushSequences(_, _, _, _)
FlushSequences(rows, r, order, k) ==
    IF k > Len(order) THEN rows
    ELSE LET key == order[k]
             sequence == ActionSequence(LastSegment(key.name), r[key].data[1].actions,
                                        0, 0, r[key].data[1].metadata)
         IN FlushSequences(IF r[key].data # None THEN _store_in_db(rows, sequence, TRUE)
                           ELSE rows,
                           r, order, k + 1)

(* the orders in which a scan can return the keys *)
ScanOrders(keys) ==
    {f \in [1..Cardinality(keys) -> keys] :
        \A a, b \in 1..Cardinality(keys) : a # b => f[a] # f[b]}

(* the session (a user, or None) in which each row of the table was
   written: the rows appended by a call belong to the caller's session *)
Owners(old, rows, cur) == old \o [k \in 1..(Len(rows) - Len(old)) |-> cur]

(* the sequence entries of a user's Volatile Store namespace *)
VolatileSequences(r, user) ==
    {[name |-> k.name, actions |-> r[k].data[1].actions] : k \in SequenceKeys(r, user)}

(* the last row stored under a task key: its execution_count and success_rate *)
LastRow(rows, task) ==
    LET ks == {k \in 1..Len(rows) : rows[k].task_key = task}
    IN IF ks = {} THEN None
       ELSE LET j == CHOOSE k \in ks : \A m \in ks : m <= k
            IN Some([execution_count |-> rows[j].execution_count,
                     success_rate |-> rows[j].success_rate])

----------------------------------------------------------------------------
(* Inputs *)

ActionLists == { <<NavA("datetime")>>, <<ClickA("datetime"), NavA("datetime")>> }

(* the arguments of the direct store_sequence_with_results calls *)
ResultCalls ==
    { [actions |-> <<NavA("datetime")>>, results |-> <<BoolResult(TRUE)>>,
       user_confirmed |-> TRUE],
      [actions |-> <<ClickA("datetime"), NavA("datetime")>>,
       results |-> <<BoolResult(TRUE), BoolResult(FALSE)>>, user_confirmed |-> FALSE] }

ResultTasks == { <<"find", "gbp/usd">> }

(* the sequences handed to store(): action lists without timestamps and one
   whose action holds a datetime *)
StoreActionLists == { <<ClickA("none")>>, <<ClickA("datetime")>> }

(* the statistics and metadata of the sequences handed to store(): a
   caller-supplied metadata success_rate of 0.9 *)
StoredSequences ==
    { [stats |-> [success_rate |-> 100, execution_count |-> 2, last_used |-> Today],
       metadata |-> [EmptyMeta EXCEPT !.success_rate = Some(90)]] }

(* the sequences handed to store() in the maintenance runs: never executed,
   last used today, 10 or 31 days ago, with or without a metadata
   success_rate *)
AgedSequences ==
    { [stats |-> [success_rate |-> 0, execution_count |-> 0, last_used |-> d],
       metadata |-> [EmptyMeta EXCEPT !.success_rate = Some(90)]] : d \in {Today, -10, -31} }
    \cup { [stats |-> [success_rate |-> 0, execution_count |-> 0, last_used |-> Today],
            metadata |-> EmptyMeta] }

MaxAges == {7, 30}

(* the sequences of the concurrent workers: executed once with success, with
   an empty metadata or with a metadata success_rate of 0.9 *)
WorkerSequences ==
    { [stats |-> [success_rate |-> 100, execution_count |-> 1, last_used |-> Today],
       metadata |-> EmptyMeta],
      [stats |-> [success_rate |-> 100, execution_count |-> 1, last_used |-> Today],
       metadata |-> [EmptyMeta EXCEPT !.success_rate = Some(90)]] }

AdminTasks == { <<"find", "gbp/usd">> }

StoreTasks == { <<"find", "gbp/usd">>, <<"close", "gbp/usd">> }

Urls == {"about:blank", "https://x/gbp-usd"}

(* the task of the session runs: a canonical verb and an entity marker *)
SessionTasks == { <<"find", "pair:eurusd">> }

(* store_sequence_with_results calls of the session runs: actions with the
   default timestamp and one whose action has timestamp=None *)
SessionCalls ==
    { [actions |-> <<NavA("datetime")>>, results |-> <<BoolResult(TRUE)>>,
       user_confirmed |-> TRUE],
      [actions |-> <<ClickA("none")>>, results |-> <<BoolResult(TRUE)>>,
       user_confirmed |-> TRUE] }

(* the coroutines of the cache: the store_sequence_with_results call
   suspended at its Durable Store write, the keys an end_session in flight
   still has to flush, the rows inserted but not committed on the cache's
   connection, the last store call that returned, and the workers of the
   concurrent runs.  At first nothing is suspended and no worker has started *)
Quiet ==
    [store |-> None, todo |-> None, pending |-> <<>>, returned |-> None,
     workers |-> [w \in 1..2 |-> [state |-> "start", res |-> None]]]

----------------------------------------------------------------------------
(* Initial state: a fresh database, the default session started by the
   constructor, the executor idle *)

Init ==
    /\ current_user_id = Some("default_user")
    /\ db_conn = TRUE
    /\ redis = [k \in {Key("session", "default_user", <<>>)} |-> Entry(None, {})]
    /\ db = <<>>
    /\ pc = "idle"
    /\ request = <<>>
    /\ cached_sequence = None
    /\ actions = <<>>
    /\ i = 0
    /\ action_results = <<>>
    /\ retry_count = 0
    /\ last_url = "about:blank"
    /\ success = FALSE
    /\ plannerCalls = 0
    /\ storeCalls = 0
    /\ emptyPlans = 0
    /\ planFailures = 0
    /\ handed = <<>>
    /\ ret = None
    /\ stored = None
    /\ got = None
    /\ owners = <<>>
    /\ ended = None
    /\ page = "about:blank"
    /\ admin = None
    /\ co = Quiet
    /\ calc = None

----------------------------------------------------------------------------
(* Cache operations *)

StartSession(user) ==
    /\ pc = "idle"
    /\ current_user_id' = Some(user)
    /\ redis' = _load_user_sequences(
                    RedisSet(redis, Key("session", user, <<>>), Entry(None, {})),
                    db, 1, user)
    /\ db_conn' = TRUE
    /\ stored' = None
    /\ got' = None
    /\ ended' = None
    /\ UNCHANGED <<db, owners, execVars>>
    /\ UNCHANGED <<page, admin, co, calc>>

EndSession ==
    /\ pc = "idle"
    /\ IF current_user_id = None
       THEN /\ ended' = Some([user |-> None, seqs |-> {}, last |-> None])
            /\ UNCHANGED <<cacheVars, owners>>
       ELSE \E order \in ScanOrders(SequenceKeys(redis, current_user_id[1])) :
              /\ db' = FlushSequences(db, redis, order, 1)
              /\ Len(db') <= MaxRows
              /\ owners' = Owners(owners, db', current_user_id)
              /\ redis' = RedisDelete(redis, {Key("session", current_user_id[1], <<>>)}
                                             \cup SequenceKeys(redis, current_user_id[1]))
              /\ ended' = Some([user |-> current_user_id,
                                seqs |-> VolatileSequences(redis, current_user_id[1]),
                                last |-> stored])
              /\ current_user_id' = None
              /\ db_conn' = FALSE
    /\ stored' = None
    /\ got' = None
    /\ UNCHANGED execVars
    /\ UNCHANGED <<page, admin, co, calc>>

StoreSequenceWithResults(task, as, results, user_confirmed, db_ok) ==
    /\ pc = "idle"
    /\ Len(db) < MaxRows
    /\ LET out == store_sequence_with_results(redis, db, db_conn, current_user_id,
                                              task, as, results, user_confirmed, db_ok)
       IN /\ redis' = out.redis
          /\ db' = out.db
          /\ db_conn' = out.db_conn
          /\ stored' = Some([task |-> task, actions |-> as,
                             user_confirmed |-> user_confirmed,
                             prior |-> LastRow(db, task),
                             session |-> current_user_id # None,
                             fresh |-> TRUE, db_ok |-> db_ok, raised |-> out.raised])
          /\ owners' = Owners(owners, out.db, current_user_id)
    /\ got' = None
    /\ ended' = None
    /\ UNCHANGED <<current_user_id, execVars>>
    /\ UNCHANGED <<page, admin, co, calc>>

(* store(sequence): json.dumps of asdict raises on a datetime timestamp and
   the exception is re-raised; otherwise the row is written without user_id *)
Store(task, as, stats, metadata) ==
    /\ pc = "idle"
    /\ Len(db) < MaxRows
    /\ IF AsdictDumpRaises(as)
       THEN UNCHANGED <<db, db_conn>>
       ELSE /\ db' = InsertOrReplace(db,
                        [task_key |-> task, user_id |-> None, actions |-> as,
                         success_rate |-> stats.success_rate,
                         execution_count |-> stats.execution_count,
                         last_used |-> stats.last_used,
                         metadata |-> JsonMeta(metadata)])
            /\ db_conn' = TRUE
    /\ owners' = Owners(owners, db', current_user_id)
    /\ stored' = None
    /\ got' = None
    /\ ended' = None
    /\ UNCHANGED <<current_user_id, redis, execVars>>
    /\ UNCHANGED <<page, admin, co, calc>>

(* the rows read through the cache's own connection: the committed ones and
   those it has inserted and not committed yet *)
ConnRows == db \o co.pending

(* the record kept of a lookup: its task, its result, the stages it
   consulted, the store call it follows and whether the task's Volatile
   Store entry was still alive *)
Lookup(task, res) ==
    [task |-> task, res |-> res, after |-> stored,
     stages |-> Stages(redis, current_user_id, task),
     volatile |-> current_user_id # None
                  /\ Key("sequence", current_user_id[1], _normalize_task(task)) \in DOMAIN redis]

GetSimilarTask(task) ==
    /\ pc = "idle"
    /\ \E res \in get_similar_task(redis, ConnRows, db_conn, current_user_id, task) :
          got' = Some(Lookup(task, res))
    /\ redis' = extend_session(redis, current_user_id)
    /\ ended' = None
    /\ UNCHANGED <<current_user_id, db_conn, db, stored, owners, execVars>>
    /\ UNCHANGED <<page, admin, co, calc>>

(* the owners of the rows that a DELETE leaves, in order *)
RECURSIVE KeptOwners(_, _, _, _)
KeptOwners(old, rows, k, max_age_days) ==
    IF k > Len(rows) THEN <<>>
    ELSE (IF rows[k].last_used < Today - max_age_days THEN <<>> ELSE <<old[k]>>)
         \o KeptOwners(old, rows, k + 1, max_age_days)

(* the record kept of a maintenance call *)
Maintenance(op, task, raised, stats) ==
    [op |-> op, task |-> task, raised |-> raised, stats |-> stats,
     before |-> Len(db)]

Clear ==
    /\ pc = "idle"
    /\ LET out == clear(redis, db)
       IN /\ redis' = out.redis
          /\ db' = out.db
    /\ owners' = <<>>
    /\ admin' = Some(Maintenance("clear", <<>>, FALSE, None))
    /\ got' = None
    /\ UNCHANGED <<current_user_id, db_conn, stored, ended, execVars, page, co, calc>>

Cleanup(max_age_days) ==
    /\ pc = "idle"
    /\ db' = cleanup(db, max_age_days)
    /\ owners' = KeptOwners(owners, db, 1, max_age_days)
    /\ admin' = Some(Maintenance("cleanup", <<>>, FALSE, None))
    /\ got' = None
    /\ UNCHANGED <<current_user_id, db_conn, redis, stored, ended, execVars, page, co, calc>>

UpdateStats(task, old_success_rate, succeeded) ==
    /\ pc = "idle"
    /\ admin' = Some(Maintenance("update_stats", task,
                                 update_stats(task, old_success_rate, succeeded).raised,
                                 None))
    /\ got' = None
    /\ UNCHANGED <<cacheVars, owners, stored, ended, execVars, page, co, calc>>

GetStats ==
    /\ pc = "idle"
    /\ admin' = Some(Maintenance("get_stats", <<>>, FALSE, Some(get_stats(db))))
    /\ got' = None
    /\ UNCHANGED <<cacheVars, owners, stored, ended, execVars, page, co, calc>>

----------------------------------------------------------------------------
(* store_sequence_with_results and end_session, one step per suspension *)

(* "await self.db.commit()": the rows inserted on the connection become
   durable; on a closed connection the call raises and nothing is written *)
Commit(rows, pending, conn) == IF conn THEN rows \o pending ELSE rows

(* lines 232-282 and 714-774: up to the suspension at the INSERT.  The
   Volatile Store is written and the row is inserted on the connection,
   not committed yet *)
StoreBegin(task, as, results, user_confirmed) ==
    /\ pc = "idle"
    /\ co.store = None
    /\ current_user_id # None
    /\ ~AnyToDictRaises(as)
    /\ Len(db) + Len(co.pending) < MaxRows
    /\ LET out == store_sequence_with_results(redis, <<>>, db_conn, current_user_id,
                                              task, as, results, user_confirmed, TRUE)
       IN /\ redis' = out.redis
          /\ db_conn' = out.db_conn
          /\ co' = [co EXCEPT !.store = Some([task |-> task, actions |-> as]),
                              !.pending = @ \o out.db,
                              !.returned = None]
    /\ got' = None
    /\ ended' = None
    /\ UNCHANGED <<current_user_id, db, owners, stored, execVars, page, admin, calc>>

(* lines 775-780: the commit after the suspension, on whatever self.db is
   by then; its exception is swallowed and the call returns *)
StoreCommit ==
    /\ pc = "idle"
    /\ co.store # None
    /\ db' = Commit(db, co.pending, db_conn)
    /\ owners' = Owners(owners, db', current_user_id)
    /\ co' = [co EXCEPT !.store = None, !.pending = <<>>, !.returned = co.store]
    /\ got' = None
    /\ UNCHANGED <<current_user_id, db_conn, redis, stored, ended, execVars, page, admin, calc>>

(* the flush of a key reaches the Durable Store: the key is still there and
   to_dict does not raise on its actions *)
Writes(key) ==
    key \in DOMAIN redis /\ FlushSequences(ConnRows, redis, <<key>>, 1) # ConnRows

(* the keys left from the first one whose flush reaches the Durable Store;
   the flushes before it fail without suspending *)
RECURSIVE FromFirstWrite(_)
FromFirstWrite(order) ==
    IF order = <<>> THEN <<>>
    ELSE IF Writes(Head(order)) THEN order
    ELSE FromFirstWrite(Tail(order))

(* lines 397-428: end_session from one suspension to the next.  It stops at
   the first flush that writes, whose commit makes every row inserted on the
   connection durable; with no such flush left it deletes the session's
   keys, clears the session and closes the connection, which drops the rows
   not committed on it *)
EndRun(order) ==
    LET rest == FromFirstWrite(order)
    IN IF rest # <<>>
       THEN /\ db' = FlushSequences(ConnRows, redis, <<Head(rest)>>, 1)
            /\ Len(db') <= MaxRows
            /\ owners' = Owners(owners, db', current_user_id)
            /\ co' = [co EXCEPT !.todo = Some(Tail(rest)), !.pending = <<>>]
            /\ db_conn' = TRUE
            /\ UNCHANGED <<current_user_id, redis, stored>>
       ELSE /\ redis' = RedisDelete(redis, {Key("session", current_user_id[1], <<>>)}
                                           \cup SequenceKeys(redis, current_user_id[1]))
            /\ current_user_id' = None
            /\ db_conn' = FALSE
            /\ co' = [co EXCEPT !.todo = None, !.pending = <<>>]
            /\ stored' = None
            /\ UNCHANGED <<db, owners>>

(* lines 389-396: end_session scans the sequence keys of the session and
   runs to its first suspension *)
EndBegin ==
    /\ pc = "idle"
    /\ co.todo = None
    /\ current_user_id # None
    /\ \E order \in ScanOrders(SequenceKeys(redis, current_user_id[1])) : EndRun(order)
    /\ got' = None
    /\ ended' = None
    /\ UNCHANGED <<execVars, page, admin, calc>>

(* end_session resumes after the commit of a flush *)
EndResume ==
    /\ pc = "idle"
    /\ co.todo # None
    /\ EndRun(co.todo[1])
    /\ got' = None
    /\ ended' = None
    /\ UNCHANGED <<execVars, page, admin, calc>>

----------------------------------------------------------------------------
(* Concurrent workers: each stores a sequence under its own task key with
   store() and then looks the key up *)

WorkerTask(w) == IF w = 1 THEN <<"find", "gbp/usd">> ELSE <<"click", "gbp/usd">>

(* store() up to the suspension at its INSERT: json.dumps of asdict raises
   on a datetime timestamp and the exception leaves the worker; otherwise
   the row is inserted on the shared connection *)
WorkerStore(w, as, stats, metadata) ==
    /\ pc = "idle"
    /\ co.workers[w].state = "start"
    /\ IF AsdictDumpRaises(as)
       THEN /\ co' = [co EXCEPT !.workers[w].state = "raised"]
            /\ UNCHANGED db_conn
       ELSE /\ co' = [co EXCEPT !.workers[w].state = "inserted",
                                !.pending = Append(@,
                                    [task_key |-> WorkerTask(w), user_id |-> None,
                                     actions |-> as,
                                     success_rate |-> stats.success_rate,
                                     execution_count |-> stats.execution_count,
                                     last_used |-> stats.last_used,
                                     metadata |-> JsonMeta(metadata)])]
            /\ db_conn' = TRUE
    /\ got' = None
    /\ UNCHANGED <<current_user_id, redis, db, owners, stored, ended, execVars,
                   page, admin, calc>>

(* "await db.commit()" of store() *)
WorkerCommit(w) ==
    /\ pc = "idle"
    /\ co.workers[w].state = "inserted"
    /\ db' = Commit(db, co.pending, db_conn)
    /\ owners' = Owners(owners, db', current_user_id)
    /\ co' = [co EXCEPT !.workers[w].state = "stored", !.pending = <<>>]
    /\ got' = None
    /\ UNCHANGED <<current_user_id, db_conn, redis, stored, ended, execVars, page, admin, calc>>

(* the worker's get_similar_task of its own key *)
WorkerLookup(w) ==
    /\ pc = "idle"
    /\ co.workers[w].state = "stored"
    /\ \E res \in get_similar_task(redis, ConnRows, db_conn, current_user_id,
                                    WorkerTask(w)) :
          co' = [co EXCEPT !.workers[w] = [state |-> "done", res |-> Some(res)]]
    /\ redis' = extend_session(redis, current_user_id)
    /\ got' = None
    /\ UNCHANGED <<current_user_id, db_conn, db, owners, stored, ended, execVars,
                   page, admin, calc>>

(* one tick of the clock: every TTL decreases, keys at zero expire *)
Tick ==
    /\ pc = "idle"
    /\ DOMAIN redis # {}
    /\ redis' = [k \in {x \in DOMAIN redis : redis[x].ttl > 1} |->
                    [redis[k] EXCEPT !.ttl = @ - 1]]
    /\ stored' = IF stored = None THEN None ELSE Some([stored[1] EXCEPT !.fresh = FALSE])
    /\ got' = None
    /\ ended' = None
    /\ UNCHANGED <<current_user_id, db_conn, db, owners, execVars>>
    /\ UNCHANGED <<page, admin, co, calc>>

----------------------------------------------------------------------------
(* TaskExecutor.execute_request, one step per awaited call *)

(* a lookup result that is never taken as a hit *)
CacheHitIgnored(seq) == FALSE

(* "if cached_sequence:" *)
CacheHit(seq) == seq # None

(* "await self.browser.execute_action(action, i)": the action handed to
   the Action Runner, its planning round (0 for a replay), its position in
   the list and whether it ended as a success *)
Handed(round, index, action, ok) ==
    [round |-> round, index |-> index, action |-> Visible(action), ok |-> ok]

(* the record appended to action_results *)
ResultRecord(action, result) == [action |-> Visible(action), success |-> result]

(* a failure that consumes no retry *)
RetryNotCounted(count) == count

(* "retry_count += 1" after a failed planning or a failed round *)
RetryAfterFailure(count) == count + 1

(* a replay that goes on after a failed action *)
ReplayNeverAborts(result) == FALSE

(* "if not result: ... return False" in the replay of a cached sequence *)
AbortsReplay(result) == ~result

(* a loop that plans again whatever the retry counter *)
AfterFailureReplans(count) == "planning"

(* the while condition after a failed round or a failed planning *)
AfterFailure(count) == IF count >= max_retries THEN "storing" ELSE "planning"

(* the lookup of a cache whose get_similar_task raised *)
LookupRaised == [seq |-> None, from |-> "raised", stored_as |-> <<>>]

(* lines 208-213: the outer handler sets success = False and the call
   returns it *)
OuterHandler == Some(FALSE)

(* line 68: the cache lookup that opens the call; an exception of the lookup
   reaches the outer handler *)
ExecuteRequest(req, lookup_raises) ==
    /\ pc = "idle"
    /\ Len(db) < MaxRows
    /\ IF lookup_raises
       THEN /\ got' = Some(Lookup(req, LookupRaised))
            /\ cached_sequence' = None
            /\ pc' = "done"
            /\ ret' = OuterHandler
            /\ redis' = redis
       ELSE /\ \E res \in get_similar_task(redis, db, db_conn, current_user_id, req) :
                  /\ got' = Some(Lookup(req, res))
                  /\ cached_sequence' = res.seq
                  /\ pc' = IF CacheHit(res.seq) THEN "cached" ELSE "planning"
            /\ redis' = extend_session(redis, current_user_id)
            /\ ret' = None
    /\ request' = req
    /\ action_results' = <<>>
    /\ success' = FALSE
    /\ retry_count' = 0
    /\ last_url' = "about:blank"
    /\ i' = 0
    /\ actions' = <<>>
    /\ plannerCalls' = 0
    /\ storeCalls' = 0
    /\ emptyPlans' = 0
    /\ planFailures' = 0
    /\ handed' = <<>>
    /\ ended' = None
    /\ UNCHANGED <<current_user_id, db_conn, db, stored, owners>>
    /\ UNCHANGED <<page, admin, co, calc>>

(* lines 72-91: one cached action; an exception of the Action Runner reaches
   the outer handler, which returns False *)
CachedAction(outcome) ==
    /\ pc = "cached"
    /\ i < Len(cached_sequence[1].actions)
    /\ LET action == cached_sequence[1].actions[i + 1]
       IN /\ handed' = Append(handed, Handed(0, i + 1, action, outcome = "true"))
          /\ IF outcome = "raise"
             THEN /\ success' = FALSE
                  /\ ret' = OuterHandler
                  /\ pc' = "done"
                  /\ UNCHANGED <<action_results, i>>
             ELSE /\ action_results' = Append(action_results,
                                              ResultRecord(action, outcome = "true"))
                  /\ IF AbortsReplay(outcome = "true")
                     THEN /\ ret' = Some(FALSE)
                          /\ pc' = "done"
                          /\ i' = i
                     ELSE /\ i' = i + 1
                          /\ UNCHANGED <<pc, ret>>
                  /\ UNCHANGED success
    /\ UNCHANGED <<cacheVars, request, cached_sequence, actions, retry_count, last_url,
                   plannerCalls, storeCalls, emptyPlans, planFailures, stored, got,
                   owners, ended, page, admin, co, calc>>

(* lines 93-96: every cached action succeeded *)
CachedReturn ==
    /\ pc = "cached"
    /\ i = Len(cached_sequence[1].actions)
    /\ success' = TRUE
    /\ ret' = Some(TRUE)
    /\ pc' = "done"
    /\ UNCHANGED <<cacheVars, request, cached_sequence, actions, i, action_results,
                   retry_count, last_url, plannerCalls, storeCalls, emptyPlans,
                   planFailures, handed, stored, got, owners, ended, page, admin, co, calc>>

(* an empty plan that sends the loop back to the Planner *)
EmptyPlanReplans == "planning"

(* lines 124-127: "if not actions: success = True; break" *)
AfterEmptyPlan == "storing"

(* lines 99-127: one Planner call; plan is None, or Some(list) *)
Plan(plan) ==
    /\ pc = "planning"
    /\ retry_count < max_retries
    /\ plannerCalls < MaxPlannerCalls
    /\ plannerCalls' = plannerCalls + 1
    /\ IF plan = None
       THEN /\ retry_count' = RetryAfterFailure(retry_count)
            /\ pc' = AfterFailure(retry_count')
            /\ planFailures' = planFailures + 1
            /\ UNCHANGED <<success, actions, i, emptyPlans>>
       ELSE IF plan[1] = <<>>
       THEN /\ success' = TRUE
            /\ pc' = AfterEmptyPlan
            /\ emptyPlans' = emptyPlans + 1
            /\ UNCHANGED <<retry_count, actions, i, planFailures>>
       ELSE /\ actions' = plan[1]
            /\ i' = 0
            /\ pc' = "executing"
            /\ UNCHANGED <<retry_count, success, emptyPlans, planFailures>>
    /\ UNCHANGED <<cacheVars, request, cached_sequence, action_results, last_url,
                   storeCalls, handed, ret, stored, got, owners, ended, page, admin, co, calc>>

(* lines 136-147: a navigate the Runner reports as done counts as failed
   when the URL observed afterwards equals last_url *)
NavigateVerified(action, result, new_url, last) ==
    IF action.type = "navigate" /\ result THEN new_url # last ELSE result

(* a failed action that does not end its round *)
RoundNeverHalts(result) == FALSE

(* lines 167-171: "if not result: action_failed = True; break" *)
HaltsRound(result) == ~result

(* lines 131-187: one planned action; new_url is the URL of the page after
   the action, which a failed action leaves where it was *)
ExecuteAction(outcome, new_url) ==
    /\ pc = "executing"
    /\ i < Len(actions)
    /\ LET action == actions[i + 1]
           verify == action.type = "navigate" /\ outcome = "true"
           result == NavigateVerified(action, outcome = "true", new_url, last_url)
       IN /\ outcome # "true" => new_url = page
          /\ page' = new_url
          /\ handed' = Append(handed, Handed(plannerCalls, i + 1, action,
                                             outcome # "raise" /\ result))
          /\ IF outcome = "raise"
             THEN /\ retry_count' = RetryAfterFailure(retry_count)
                  /\ pc' = AfterFailure(retry_count')
                  /\ UNCHANGED <<action_results, i, last_url>>
             ELSE /\ action_results' = Append(action_results, ResultRecord(action, result))
                  /\ last_url' = IF verify /\ result THEN new_url ELSE last_url
                  /\ IF ~HaltsRound(result)
                     THEN /\ i' = i + 1
                          /\ pc' = IF i' = Len(actions) THEN "planning" ELSE "executing"
                          /\ UNCHANGED retry_count
                     ELSE /\ retry_count' = RetryAfterFailure(retry_count)
                          /\ pc' = AfterFailure(retry_count')
                          /\ i' = i
    /\ UNCHANGED <<cacheVars, request, cached_sequence, actions, success,
                   plannerCalls, storeCalls, emptyPlans, planFailures, ret, stored, got,
                   owners, ended, admin, co, calc>>

(* lines 194-201: the Action objects rebuilt from the result records *)
RebuiltActions(results) ==
    [k \in 1..Len(results) |->
        Action(results[k].action.type, results[k].action.selector,
               results[k].action.url, results[k].action.text, "datetime")]

(* line 202: the result dicts themselves are passed as per-action results *)
PassedResults(results) == [k \in 1..Len(results) |-> DictResult(results[k].success)]

(* a store failure that turns the result of the call into a failure *)
StoreFailureFailsRequest(succeeded) == Some(FALSE)

(* lines 205-206 and 213: an exception of the store call is logged and the
   call returns success as the loop left it *)
AfterStoreFailure(succeeded) == Some(succeeded)

(* lines 189-213: store the results when there are any, then return; an
   exception of the store call is caught by its own handler *)
StoreResults(store_raises) ==
    /\ pc = "storing"
    /\ store_raises => action_results # <<>>
    /\ IF store_raises
       THEN /\ storeCalls' = storeCalls + 1
            /\ stored' = Some([task |-> request,
                               actions |-> RebuiltActions(action_results),
                               user_confirmed |-> success,
                               prior |-> LastRow(db, request),
                               session |-> current_user_id # None,
                               fresh |-> TRUE, db_ok |-> TRUE,
                               raised |-> TRUE])
            /\ UNCHANGED <<redis, db, db_conn, owners>>
       ELSE IF action_results # <<>>
       THEN LET out == store_sequence_with_results(redis, db, db_conn, current_user_id,
                           request, RebuiltActions(action_results),
                           PassedResults(action_results), success, TRUE)
            IN /\ redis' = out.redis
               /\ db' = out.db
               /\ db_conn' = out.db_conn
               /\ storeCalls' = storeCalls + 1
               /\ owners' = Owners(owners, out.db, current_user_id)
               /\ stored' = Some([task |-> request,
                                  actions |-> RebuiltActions(action_results),
                                  user_confirmed |-> success,
                                  prior |-> LastRow(db, request),
                                  session |-> current_user_id # None,
                                  fresh |-> TRUE, db_ok |-> TRUE,
                                  raised |-> out.raised])
       ELSE UNCHANGED <<redis, db, db_conn, storeCalls, stored, owners>>
    /\ ret' = IF store_raises THEN AfterStoreFailure(success) ELSE Some(success)
    /\ pc' = "done"
    /\ UNCHANGED <<current_user_id, request, cached_sequence, actions, i, action_results,
                   retry_count, last_url, success, plannerCalls, emptyPlans,
                   planFailures, handed, got, ended, page, admin, co, calc>>

----------------------------------------------------------------------------

Outcomes == {"true", "false", "raise"}

ExecTasks == { <<"Search", "for", "the", "gbp/usd">> }

Plans == {None, Some(<<>>)} \cup {Some(p) : p \in ActionLists}

(* the cache operations *)
NextCache ==
    \/ StartSession("default_user")
    \/ EndSession
    \/ \E t \in ResultTasks, c \in ResultCalls :
         StoreSequenceWithResults(t, c.actions, c.results, c.user_confirmed, TRUE)
    \/ \E t \in StoreTasks, as \in StoreActionLists, q \in StoredSequences :
         Store(t, as, q.stats, q.metadata)
    \/ \E t \in Tasks : GetSimilarTask(t)
    \/ Tick

(* the URLs of the page after the next action, on pages where only a
   navigate changes the URL *)
UrlsAfter ==
    IF pc = "executing" /\ i < Len(actions) /\ actions[i + 1].type # "navigate"
    THEN {page}
    ELSE Urls

(* one execute_request call over a cache filled by store() *)
NextExec ==
    \/ \E q \in StoredSequences :
         Store(<<"find", "gbp/usd">>, <<ClickA("none"), TypeA("none")>>, q.stats, q.metadata)
    \/ EndSession
    \/ StartSession("u2")
    \/ \E t \in ExecTasks : ExecuteRequest(t, FALSE)
    \/ \E o \in Outcomes : CachedAction(o)
    \/ CachedReturn
    \/ \E p \in Plans : Plan(p)
    \/ \E o \in Outcomes, u \in UrlsAfter : ExecuteAction(o, u)
    \/ StoreResults(FALSE)

(* successive sessions of one user over one task, with Durable Store writes
   that can fail *)
NextSession ==
    \/ StartSession("default_user")
    \/ EndSession
    \/ \E t \in SessionTasks, c \in SessionCalls, db_ok \in BOOLEAN :
         StoreSequenceWithResults(t, c.actions, c.results, c.user_confirmed, db_ok)
    \/ \E t \in SessionTasks : GetSimilarTask(t)
    \/ Tick

(* one execute_request call whose cache can raise and whose pages can move
   on any action *)
NextFaults ==
    \/ \E q \in StoredSequences :
         Store(<<"find", "gbp/usd">>, <<ClickA("none"), TypeA("none")>>, q.stats, q.metadata)
    \/ \E t \in ExecTasks, lookup_raises \in BOOLEAN : ExecuteRequest(t, lookup_raises)
    \/ \E o \in Outcomes : CachedAction(o)
    \/ CachedReturn
    \/ \E p \in Plans : Plan(p)
    \/ \E o \in Outcomes, u \in Urls : ExecuteAction(o, u)
    \/ \E store_raises \in BOOLEAN : StoreResults(store_raises)

(* store, lookup and the maintenance calls of one session *)
NextAdmin ==
    \/ \E t \in AdminTasks, q \in AgedSequences :
         Store(t, <<ClickA("none")>>, q.stats, q.metadata)
    \/ \E t \in AdminTasks :
         StoreSequenceWithResults(t, <<NavA("datetime")>>, <<BoolResult(TRUE)>>, TRUE, TRUE)
    \/ \E t \in AdminTasks : GetSimilarTask(t)
    \/ Clear
    \/ \E m \in MaxAges : Cleanup(m)
    \/ \E t \in AdminTasks : UpdateStats(t, 0, TRUE)
    \/ GetStats
    \/ Tick

(* the users whose session can be started: none while a store or an
   end_session is suspended *)
Restartable == IF co.todo = None /\ co.store = None THEN {"default_user"} ELSE {}

(* a store_sequence_with_results call and an end_session that interleave at
   their suspension points, with lookups in between *)
NextRace ==
    \/ \E u \in Restartable : StartSession(u)
    \/ \E t \in SessionTasks, c \in SessionCalls :
         StoreBegin(t, c.actions, c.results, c.user_confirmed)
    \/ StoreCommit
    \/ EndBegin
    \/ EndResume
    \/ \E t \in SessionTasks : GetSimilarTask(t)
    \/ Tick

(* two workers that store and look up concurrently in one session *)
NextWorkers ==
    \/ \E w \in 1..2, as \in StoreActionLists, q \in WorkerSequences :
         WorkerStore(w, as, q.stats, q.metadata)
    \/ \E w \in 1..2 : WorkerCommit(w)
    \/ \E w \in 1..2 : WorkerLookup(w)
    \/ Tick

SpecCache == Init /\ [][NextCache]_vars

(* task texts over the verb phrases, synonyms, letter cases and noise words
   that _normalize_task tells apart *)
PureTasks ==
    { <<"go", "to", "gbp/usd">>, <<"navigate", "to", "gbp/usd">>,
      <<"open", "gbp/usd">>, <<"Open", "the", "gbp/usd">>,
      <<"search", "for", "gbp/usd">>, <<"search", "gbp/usd">>,
      <<"find", "gbp/usd">>, <<"Find", "the", "gbp/usd", "rate">>,
      <<"click", "gbp/usd">>, <<"press", "the", "gbp/usd">>,
      <<"type", "gbp/usd">>, <<"close", "the", "gbp/usd">> }

(* action lists and per-action flags of store_sequence_with_results calls:
   all, some and no actions succeeded, and lists of different lengths *)
PureCalls ==
    { [actions |-> <<>>, results |-> <<>>],
      [actions |-> <<NavA("datetime")>>, results |-> <<BoolResult(TRUE)>>],
      [actions |-> <<NavA("datetime")>>, results |-> <<BoolResult(FALSE)>>],
      [actions |-> <<NavA("datetime")>>, results |-> <<BoolResult(TRUE), BoolResult(FALSE)>>],
      [actions |-> <<ClickA("datetime"), NavA("datetime")>>, results |-> <<BoolResult(TRUE)>>] }
    \cup { [actions |-> <<ClickA("datetime"), NavA("datetime")>>,
            results |-> <<BoolResult(a), BoolResult(b)>>] : a, b \in BOOLEAN }

(* a call of _calculate_task_similarity, with the two normalized forms *)
CalculateTaskSimilarity(task1, task2) ==
    /\ calc' = Some([op |-> "similarity", task1 |-> task1, task2 |-> task2,
                     normalized1 |-> _normalize_task(task1),
                     normalized2 |-> _normalize_task(task2),
                     score |-> _calculate_task_similarity(task1, task2),
                     actions |-> <<>>, results |-> <<>>,
                     sequence |-> None, out |-> None])
    /\ UNCHANGED <<cacheVars, execVars, stored, got, owners, ended, page, admin, co>>

(* a call of store_sequence_with_results on the stores as they are: the
   ActionSequence it builds and the stores it would leave *)
BuildAndStore(task, as, results, user_confirmed) ==
    /\ calc' = Some([op |-> "store", task1 |-> task, task2 |-> task,
                     normalized1 |-> _normalize_task(task),
                     normalized2 |-> _normalize_task(task),
                     score |-> _calculate_task_similarity(task, task),
                     actions |-> as, results |-> results,
                     sequence |-> Some(BuildSequence(task, as, results, user_confirmed)),
                     out |-> Some(store_sequence_with_results(redis, db, db_conn,
                                      current_user_id, task, as, results,
                                      user_confirmed, TRUE))])
    /\ UNCHANGED <<cacheVars, execVars, stored, got, owners, ended, page, admin, co>>

(* the pure functions of the cache applied to bounded inputs *)
NextPure ==
    \/ \E t1, t2 \in PureTasks : CalculateTaskSimilarity(t1, t2)
    \/ \E c \in PureCalls, u \in BOOLEAN :
         BuildAndStore(<<"find", "gbp/usd">>, c.actions, c.results, u)

(* the task of the flush runs: its normalized form is the task itself *)
FlushTasks == { <<"find", "gbp/usd">> }

(* sessions of one user that store a sequence and end *)
NextFlush ==
    \/ StartSession("default_user")
    \/ EndSession
    \/ \E t \in FlushTasks, c \in SessionCalls :
         StoreSequenceWithResults(t, c.actions, c.results, c.user_confirmed, TRUE)
    \/ \E t \in FlushTasks : GetSimilarTask(t)
    \/ Tick

SpecFlush == Init /\ [][NextFlush]_vars

SpecPure == Init /\ [][NextPure]_vars

SpecWorkers == Init /\ [][NextWorkers]_vars

SpecRace == Init /\ [][NextRace]_vars

SpecAdmin == Init /\ [][NextAdmin]_vars

SpecFaults == Init /\ [][NextFaults]_vars

SpecSession == Init /\ [][NextSession]_vars

Spec == Init /\ [][NextExec]_vars

TypeOK ==
    /\ pc \in {"idle", "cached", "planning", "executing", "storing", "done"}
    /\ retry_count \in 0..MaxPlannerCalls
    /\ Len(db) <= MaxRows

----------------------------------------------------------------------------
(* Properties *)

(* the lookup just made follows a store_sequence_with_results call for the
   same task, made in an active session *)
LookupAfterStore ==
    /\ got # None
    /\ got[1].after # None
    /\ got[1].after[1].session
    /\ got[1].after[1].task = got[1].task

(* the canonical verb tokens of a task *)
CanonicalVerbs(task) == WordSet(_normalize_task(task)) \cap {"go to", "find", "click", "type"}

(* the word-overlap score of two tasks is at least 0.8 *)
HighOverlap(task1, task2) ==
    LET w1 == WordSet(_normalize_task(task1))
        w2 == WordSet(_normalize_task(task2))
    IN 10 * Cardinality(w1 \cap w2) >= 8 * Max(Cardinality(w1), Cardinality(w2))

AllFailed(results) == \A k \in 1..Len(results) : ~results[k].success

AllSucceeded(results) == \A k \in 1..Len(results) : results[k].success

(* C1: a sequence stored with store_sequence_with_results and looked up at
   once by its exact task key is returned (not absent) with an action list
   equal to the stored one in kinds, selectors, text and order. *)
C1_RoundTrip ==
    (LookupAfterStore /\ got[1].after[1].fresh)
    => /\ got[1].res.seq # None
       /\ VisibleAll(got[1].res.seq[1].actions) = VisibleAll(got[1].after[1].actions)

(* C2: in a run on a cache miss in which every planning round ends in a
   failure (no action succeeds, the Planner never signals completion) the
   Planner is invoked at most 3 times and the call returns failure. *)
C2_RetryBound ==
    (pc # "idle" /\ cached_sequence = None /\ emptyPlans = 0 /\ AllFailed(action_results))
    => /\ plannerCalls <= 3
       /\ pc = "done" => ret = Some(FALSE)

C2_Witness ==
    /\ pc = "done"
    /\ cached_sequence = None
    /\ emptyPlans = 0
    /\ Len(action_results) = 3
    /\ AllFailed(action_results)
    /\ plannerCalls = 3
    /\ ret = Some(FALSE)

(* C3: every execute_request call that executed an action, Completed or
   Failed, replayed or planned, has submitted the executed action list to
   the cache with store_sequence_with_results when it returns, with
   user_confirmed true exactly when it returns success. *)
C3_AlwaysStores ==
    (pc = "done" /\ action_results # <<>>)
    => /\ storeCalls = 1
       /\ stored # None
       /\ stored[1].task = request
       /\ stored[1].actions = RebuiltActions(action_results)
       /\ stored[1].user_confirmed = (ret = Some(TRUE))

(* C4: a lookup never returns a sequence stored under a task that shares no
   canonical verb token with the requested task, whatever their word
   overlap. *)
C4_SimilarityGate ==
    (got # None /\ got[1].res.seq # None)
    => CanonicalVerbs(got[1].task) \cap CanonicalVerbs(got[1].res.stored_as) # {}

(* a lookup came back absent although the Durable Store holds, with a good
   success rate, a task of word overlap >= 0.8 that shares no verb with it *)
C4_Witness ==
    /\ got # None
    /\ got[1].res.seq = None
    /\ current_user_id # None
    /\ db_conn
    /\ \E k \in 1..Len(db) :
          /\ db[k].task_key # got[1].task
          /\ MetaSuccessRate(db[k].metadata) >= 80
          /\ HighOverlap(got[1].task, db[k].task_key)
          /\ CanonicalVerbs(got[1].task) \cap CanonicalVerbs(db[k].task_key) = {}

(* C5: with a stored sequence of execution_count n and success_rate r, one
   more confirmed store_sequence_with_results for the task leaves
   execution_count n + 1 and success_rate (r * n + 1) / (n + 1). *)
C5_RunningAverage ==
    (stored # None /\ stored[1].session /\ stored[1].user_confirmed
     /\ stored[1].prior # None)
    => LET n == stored[1].prior[1].execution_count
           r == stored[1].prior[1].success_rate
           new == LastRow(db, stored[1].task)[1]
       IN /\ new.execution_count = n + 1
          /\ new.success_rate * (n + 1) = r * n + 100

(* C6: a stored sequence is served from the Volatile Store while its entry
   lives and from the Durable Store once the entry has expired, in both
   cases with the stored action list. *)
C6_TtlExpiry ==
    LookupAfterStore
    => /\ got[1].res.seq # None
       /\ got[1].res.from = (IF got[1].volatile THEN "redis" ELSE "db")
       /\ VisibleAll(got[1].res.seq[1].actions) = VisibleAll(got[1].after[1].actions)

(* C7: each successful replay of a cached sequence updates the stored
   statistics of the sequence exactly once. *)
C7_ReplayUpdatesOnce ==
    (pc = "done" /\ cached_sequence # None /\ ret = Some(TRUE))
    => storeCalls = 1

(* the new-task scenario: a miss, a single navigate that succeeds, then the
   empty plan *)
NewTaskScenario ==
    /\ pc = "done"
    /\ cached_sequence = None
    /\ plannerCalls = 2
    /\ emptyPlans = 1
    /\ retry_count = 0
    /\ Len(action_results) = 1
    /\ action_results[1].action.type = "navigate"
    /\ action_results[1].success

(* C8: in the new-task scenario execute_request returns success and calls
   the cache store once; with a session active the store leaves a
   one-action sequence with execution_count 1 and success_rate 1.0. *)
C8_NewTask ==
    NewTaskScenario
    => /\ ret = Some(TRUE)
       /\ storeCalls = 1
       /\ current_user_id # None
          => LET row == db[Len(db)]
                 key == Key("sequence", current_user_id[1], _normalize_task(request))
             IN /\ row.task_key = request
                /\ Len(row.actions) = 1
                /\ row.execution_count = 1
                /\ row.success_rate = 100
                /\ key \in DOMAIN redis
                /\ Len(redis[key].data[1].actions) = 1

C8_Witness == NewTaskScenario /\ current_user_id # None /\ ret = Some(TRUE)

(* C9: on a cache hit the Planner is never invoked: the executor is
   replaying the cached list or has returned. *)
C9_HitSkipsPlanner ==
    cached_sequence # None => (plannerCalls = 0 /\ pc \in {"cached", "done"})

C9_Witness ==
    /\ cached_sequence # None
    /\ pc = "done"
    /\ action_results # <<>>
    /\ ret = Some(FALSE)

(* C10: on a cache hit the executed actions are the cached ones in order,
   only the last executed action can have failed and it ends the call with
   failure, with no retry; success is returned only when every cached
   action succeeded. *)
C10_ReplayAtomic ==
    cached_sequence # None
    => /\ retry_count = 0
       /\ Len(action_results) <= Len(cached_sequence[1].actions)
       /\ \A k \in 1..Len(action_results) :
             /\ action_results[k].action = Visible(cached_sequence[1].actions[k])
             /\ ~action_results[k].success
                => (k = Len(action_results) /\ pc = "done" /\ ret = Some(FALSE))
       /\ ret = Some(TRUE)
          => (Len(action_results) = Len(cached_sequence[1].actions)
              /\ AllSucceeded(action_results))

C10_Witness ==
    /\ cached_sequence # None
    /\ pc = "done"
    /\ Len(cached_sequence[1].actions) = 2
    /\ Len(action_results) = 1
    /\ ~action_results[1].success
    /\ ret = Some(FALSE)

(* C11: on a cache miss, once the Planner has returned an empty action
   list the call executes no further action, does not call the Planner
   again, and returns success. *)
C11_EmptyPlanCompletes ==
    /\ [](emptyPlans > 0
          => /\ emptyPlans = 1
             /\ cached_sequence = None
             /\ success
             /\ pc \in {"storing", "done"}
             /\ pc = "done" => ret = Some(TRUE))
    /\ [][emptyPlans > 0
          => (plannerCalls' = plannerCalls /\ action_results' = action_results)]_vars

(* the empty plan came in a later round, after a failed round and a
   successful action *)
C11_Witness ==
    /\ pc = "done"
    /\ emptyPlans = 1
    /\ retry_count = 2
    /\ plannerCalls >= 3
    /\ action_results # <<>>
    /\ ret = Some(TRUE)

(* the rounds of the call that ended in a failed action or a Runner
   exception *)
FailedRounds == Cardinality({k \in 1..Len(handed) : ~handed[k].ok})

(* C12: a null plan consumes the same retry budget as a failed action
   round: planning failures plus failed rounds equal the retry counter and
   never exceed 3, the counter never decreases during the call, and at 3
   the call leaves the loop and returns false. *)
C12_SharedRetryBudget ==
    /\ [](cached_sequence = None
          => /\ retry_count = planFailures + FailedRounds
             /\ planFailures + FailedRounds <= 3
             /\ retry_count = 3
                => /\ pc \in {"storing", "done"}
                   /\ ~success
                   /\ pc = "done" => ret = Some(FALSE))
    /\ [][pc # "idle" => retry_count' >= retry_count]_vars

(* null plans and a failed round add up to 3 with a successful action in
   between *)
C12_Witness ==
    /\ pc = "done"
    /\ planFailures >= 1
    /\ FailedRounds >= 1
    /\ \E k \in 1..Len(handed) : handed[k].ok
    /\ retry_count = 3
    /\ ret = Some(FALSE)

(* C13: actions are handed to the Action Runner in list order: each
   round starts at the head of its list, the next action is handed over only
   after the one before it succeeded, and rounds never interleave. *)
C13_ListOrder ==
    \A k \in 1..Len(handed) :
       /\ handed[k].round = plannerCalls
          => handed[k].action =
                Visible((IF cached_sequence # None THEN cached_sequence[1].actions
                         ELSE actions)[handed[k].index])
       /\ IF k = 1 \/ handed[k - 1].round # handed[k].round
          THEN /\ handed[k].index = 1
               /\ k > 1 => handed[k - 1].round < handed[k].round
          ELSE /\ handed[k].index = handed[k - 1].index + 1
               /\ handed[k - 1].ok

(* a round of two actions whose second failed, then an action of a later
   round *)
C13_Witness ==
    /\ Len(handed) >= 3
    /\ handed[1].round = handed[2].round
    /\ handed[1].ok
    /\ ~handed[2].ok
    /\ handed[3].round > handed[2].round
    /\ handed[3].index = 1

(* the session just ended held the sequence of the last store call in its
   Volatile Store namespace *)
EndedWithLastStore ==
    /\ ended # None
    /\ ended[1].last # None
    /\ ended[1].last[1].session
    /\ \E q \in ended[1].seqs :
          /\ q.name = _normalize_task(ended[1].last[1].task)
          /\ q.actions = ToDictAll(ended[1].last[1].actions)

(* C14: after end_session, the Durable Store holds, for a sequence that was
   in the session's Volatile Store namespace, a row under the sequence's
   task key with the same action list, also for a task with a
   colon-delimited entity marker. *)
C14_FlushPersists ==
    EndedWithLastStore
    => \E k \in 1..Len(db) :
          /\ db[k].task_key = ended[1].last[1].task
          /\ VisibleAll(db[k].actions) = VisibleAll(ended[1].last[1].actions)

(* C15: after end_session no Volatile Store key of the ended user remains
   (session marker, sequence entries, entity, verb and normalized index
   entries) and no session is active. *)
C15_NamespaceDeleted ==
    (ended # None /\ ended[1].user # None)
    => /\ current_user_id = None
       /\ \A k \in DOMAIN redis : k.user # ended[1].user[1]

(* C16: right after a get_similar_task in an active session, every Volatile
   Store key of the session's namespace, index entries included, has the
   full session timeout as its TTL. *)
C16_ExtendRefreshesAll ==
    (got # None /\ current_user_id # None)
    => \A k \in DOMAIN redis :
          k.user = current_user_id[1] => redis[k].ttl = SESSION_TIMEOUT

(* every row written in a session of the user is in the user's Volatile
   Store namespace with the session TTL *)
WarmLoaded(user) ==
    \A k \in 1..Len(db) :
       owners[k] = Some(user)
       => \E key \in SequenceKeys(redis, user) :
             /\ redis[key].ttl = SESSION_TIMEOUT
             /\ redis[key].data # None
             /\ VisibleAll(redis[key].data[1].actions) = VisibleAll(db[k].actions)

(* C17: when start_session(user) completes, every sequence persisted to the
   Durable Store in an earlier session of that user is present in the
   Volatile Store with the session TTL. *)
C17_WarmLoad ==
    [][\A u \in Users : StartSession(u) => WarmLoaded(u)']_vars

(* C18: a get_similar_task in a user's session never returns, from the
   Volatile Store or from the Durable Store scan, a sequence that only
   another user's session stored. *)
C18_NoCrossSession ==
    (got # None /\ got[1].res.seq # None /\ current_user_id # None)
    => \/ got[1].res.from = "redis"
       \/ \E k \in 1..Len(db) :
             /\ db[k].task_key = got[1].res.stored_as
             /\ db[k].actions = got[1].res.seq[1].actions
             /\ owners[k] \in {None, current_user_id}

(* the store call just made in the active session *)
JustStored ==
    /\ stored # None
    /\ stored[1].session
    /\ stored[1].fresh
    /\ current_user_id # None

(* the Volatile Store holds the sequence of the last store call under
   sequence:{user}:{normalized task} with the session TTL, and the
   normalized, entity and verb index entries reference that key *)
VolatileHoldsStored ==
    LET user == current_user_id[1]
        norm == _normalize_task(stored[1].task)
        key == Key("sequence", user, norm)
        entities == {ColonSecond(norm[k]) : k \in {j \in 1..Len(norm) : HasColon(norm[j])}}
    IN /\ key \in DOMAIN redis
       /\ redis[key].ttl = SESSION_TIMEOUT
       /\ redis[key].data # None
       /\ VisibleAll(redis[key].data[1].actions) = VisibleAll(stored[1].actions)
       /\ Key("normalized", user, norm) \in DOMAIN redis
       /\ redis[Key("normalized", user, norm)].members = {key}
       /\ \A e \in entities :
             /\ Key("entity", user, <<e>>) \in DOMAIN redis
             /\ key \in redis[Key("entity", user, <<e>>)].members
       /\ \A v \in CanonicalVerbs(stored[1].task) :
             /\ Key("verb", user, <<v>>) \in DOMAIN redis
             /\ key \in redis[Key("verb", user, <<v>>)].members

(* C19: after a store_sequence_with_results call in an active session with
   both stores available, the Volatile Store holds the sequence with the
   session TTL, the three kinds of index entries reference its key, and the
   Durable Store holds a row for the task with the same action list. *)
C19_StoreWritesBoth ==
    (JustStored /\ stored[1].db_ok)
    => /\ VolatileHoldsStored
       /\ Len(db) > 0
       /\ db[Len(db)].task_key = stored[1].task
       /\ VisibleAll(db[Len(db)].actions) = VisibleAll(stored[1].actions)

(* a store of "find pair:eurusd": the entity index eurusd and the verb index
   find reference the sequence key *)
C19_Witness ==
    /\ JustStored
    /\ stored[1].db_ok
    /\ stored[1].task = <<"find", "pair:eurusd">>
    /\ Len(db) = 1
    /\ Key("entity", current_user_id[1], <<"eurusd">>) \in DOMAIN redis
    /\ Key("verb", current_user_id[1], <<"find">>) \in DOMAIN redis
    /\ Key("sequence", current_user_id[1], <<"find", "pair:eurusd">>) \in DOMAIN redis

(* C20: when the Durable Store write of a store_sequence_with_results call
   fails, the call does not raise and the Volatile Store sequence entry and
   index entries it wrote are in place. *)
C20_DbFailureSwallowed ==
    (JustStored /\ ~stored[1].db_ok)
    => /\ ~stored[1].raised
       /\ VolatileHoldsStored

(* a store whose Durable Store write failed: no row, the entry is there *)
C20_Witness ==
    /\ JustStored
    /\ ~stored[1].db_ok
    /\ db = <<>>
    /\ Key("sequence", current_user_id[1], <<"find", "pair:eurusd">>) \in DOMAIN redis
    /\ Key("verb", current_user_id[1], <<"find">>) \in DOMAIN redis

(* a step of store_sequence_with_results, get_similar_task or end_session *)
SessionOperation ==
    \/ EndSession
    \/ \E t \in SessionTasks : GetSimilarTask(t)
    \/ \E t \in SessionTasks, c \in SessionCalls, db_ok \in BOOLEAN :
         StoreSequenceWithResults(t, c.actions, c.results, c.user_confirmed, db_ok)

(* C21: with no session active, store_sequence_with_results,
   get_similar_task and end_session change neither the Volatile Store nor
   the Durable Store, return the absent result and do not raise. *)
C21_SessionAbsent ==
    [][(current_user_id = None /\ SessionOperation)
       => /\ redis' = redis
          /\ db' = db
          /\ current_user_id' = None
          /\ got' # None => got'[1].res = NotFound
          /\ stored' # None => ~stored'[1].raised]_vars

(* a lookup and a store made after the session was ended *)
C21_Witness ==
    /\ current_user_id = None
    /\ got # None
    /\ got[1].res = NotFound
    /\ got[1].after # None
    /\ ~got[1].after[1].session

(* C22: execute_request always ends with a boolean result: an exception of
   the lookup, of the Planner, of the Action Runner or of the store call is
   caught, and a store call that fails after a successful run leaves the
   result a success. *)
C22_AlwaysBoolean ==
    pc = "done"
    => /\ ret \in {Some(TRUE), Some(FALSE)}
       /\ (stored # None /\ stored[1].raised /\ success) => ret = Some(TRUE)
       /\ (got # None /\ got[1].res = LookupRaised) => ret = Some(FALSE)

(* a successful run whose store call raised *)
C22_Witness ==
    /\ pc = "done"
    /\ stored # None
    /\ stored[1].raised
    /\ success
    /\ action_results # <<>>
    /\ ret = Some(TRUE)

(* C29: a navigate that the Action Runner reports as done is recorded as
   failed exactly when the URL observed after it equals the URL of the page
   immediately before it. *)
C29_NavigateVerification ==
    [][\A o \in Outcomes, u \in Urls :
         (ExecuteAction(o, u) /\ actions[i + 1].type = "navigate" /\ o = "true")
         => (handed'[Len(handed')].ok <=> u # page)]_vars

(* C30: every sequence returned by get_similar_task has a recorded success
   rate of at least 0.8, and one returned for a task other than the one it
   was stored under has a similarity of at least 0.8 with it; a row whose
   recorded success rate is lower is never the one served. *)
C30_OnlyGoodHits ==
    (got # None /\ got[1].res.seq # None)
    => /\ got[1].res.seq[1].success_rate >= MinSuccessRate
       /\ got[1].res.stored_as # got[1].task
          => /\ HighOverlap(got[1].task, got[1].res.stored_as)
             /\ CanonicalVerbs(got[1].task) \cap CanonicalVerbs(got[1].res.stored_as) # {}
       /\ got[1].res.from = "db"
          => \E k \in 1..Len(db) :
                /\ db[k].task_key = got[1].res.stored_as
                /\ db[k].actions = got[1].res.seq[1].actions
                /\ MetaSuccessRate(db[k].metadata) >= MinSuccessRate

(* a hit for a task other than the stored one, while the table also holds,
   under the same stored task, the row of a failed run *)
C30_Witness ==
    /\ got # None
    /\ got[1].res.seq # None
    /\ got[1].res.stored_as # got[1].task
    /\ \E k \in 1..Len(db) :
          /\ db[k].task_key = got[1].res.stored_as
          /\ db[k].success_rate = 0
          /\ MetaSuccessRate(db[k].metadata) < MinSuccessRate

(* a lookup came back absent for a task that shares a verb with a stored
   task of good success rate but overlaps it by less than 0.8 *)
LowOverlapRejected ==
    /\ got # None
    /\ got[1].res.seq = None
    /\ current_user_id # None
    /\ db_conn
    /\ \E k \in 1..Len(db) :
          /\ MetaSuccessRate(db[k].metadata) >= MinSuccessRate
          /\ ~HighOverlap(got[1].task, db[k].task_key)
          /\ CanonicalVerbs(got[1].task) \cap CanonicalVerbs(db[k].task_key) # {}

(* the (task key, session user) pairs under which the rows were stored *)
StoredPairs == {<<db[k].task_key, owners[k]>> : k \in 1..Len(db)}

(* C25: the Durable Store holds at most one row per (task key, user): a
   store under a pair already present replaces its row, and the total that
   get_stats reports is the number of distinct pairs stored. *)
C25_OneRowPerKey ==
    /\ \A j, k \in 1..Len(db) :
          (db[j].task_key = db[k].task_key /\ owners[j] = owners[k]) => j = k
    /\ get_stats(db).total_sequences = Cardinality(StoredPairs)

(* the rows of the table that cleanup(max_age_days) has to keep *)
Recent(rows, max_age_days) ==
    SelectSeq(rows, LAMBDA x : x.last_used >= Today - max_age_days)

(* the lookup of the task finds a sequence whatever the choice it makes *)
Retrievable(r, rows, conn, cur, task) ==
    NotFound \notin get_similar_task(r, rows, conn, cur, task)

(* C26: cleanup(max_age_days) removes exactly the rows whose last_used is
   earlier than now - max_age_days and leaves the others as they were: a
   recent row that a lookup can return is still returned afterwards, and a
   task whose rows are all older is no longer found in the Durable Store. *)
C26_CleanupByAge ==
    [][\A m \in MaxAges :
         Cleanup(m)
         => /\ db' = Recent(db, m)
            /\ \A t \in AdminTasks :
                  /\ (\E k \in 1..Len(db) :
                         /\ db[k].task_key = t
                         /\ db[k].last_used >= Today - m
                         /\ Retrievable(redis, <<db[k]>>, db_conn, current_user_id, t))
                     => Retrievable(redis', db', db_conn', current_user_id', t)
                  /\ (\A k \in 1..Len(db) :
                         db[k].task_key = t => db[k].last_used < Today - m)
                     => \A res \in get_similar_task(redis', db', db_conn',
                                                    current_user_id', t) :
                           res.from # "db"]_vars

(* a cleanup removed a row and kept another, which a later lookup returned *)
C26_Witness ==
    /\ admin # None
    /\ admin[1].op = "cleanup"
    /\ Len(db) > 0
    /\ Len(db) < admin[1].before
    /\ got # None
    /\ got[1].res.seq # None
    /\ got[1].res.from = "db"

(* C27: clear() leaves the Durable Store empty, so that no lookup is served
   from it, and neither clear() nor cleanup() changes a key, a value or a
   TTL of the Volatile Store or the session. *)
C27_MaintenanceFrame ==
    [][(Clear \/ \E m \in MaxAges : Cleanup(m))
       => /\ redis' = redis
          /\ current_user_id' = current_user_id
          /\ Clear
             => /\ db' = <<>>
                /\ \A t \in AdminTasks :
                      \A res \in get_similar_task(redis', db', db_conn',
                                                  current_user_id', t) :
                         res.from # "db"]_vars

(* a clear emptied a table that held rows while the Volatile Store held a
   sequence entry *)
C27_Witness ==
    /\ admin # None
    /\ admin[1].op = "clear"
    /\ admin[1].before > 0
    /\ db = <<>>
    /\ current_user_id # None
    /\ SequenceKeys(redis, current_user_id[1]) # {}

(* C28: after store() of a sequence with execution_count 0,
   update_stats(task, t, success=True) returns without an error and the
   stored sequence then has execution_count 1 and, by the running average,
   success_rate 1.0, which the lookups and get_stats report. *)
C28_UpdateStats ==
    [][\A t \in AdminTasks :
         (UpdateStats(t, 0, TRUE)
          /\ LastRow(db, t) = Some([execution_count |-> 0, success_rate |-> 0]))
         => /\ ~admin'[1].raised
            /\ LastRow(db', t) = Some([execution_count |-> 1, success_rate |-> 100])
            /\ get_stats(db').avg_executions # Some([num |-> 0, den |-> Len(db')])]_vars

(* C23: when a store_sequence_with_results call and an end_session
   interleave at their suspension points, every sequence whose store call
   has returned is in the Durable Store once both are over. *)
C23_RaceSafe ==
    (co.returned # None /\ co.store = None /\ co.todo = None)
    => \E k \in 1..Len(db) :
          /\ db[k].task_key = co.returned[1].task
          /\ VisibleAll(db[k].actions) = VisibleAll(co.returned[1].actions)

(* C24: when concurrent workers each store a sequence under a task key of
   their own and then look it up, no store fails, every stored row is in the
   Durable Store and every lookup returns the sequence stored under the
   worker's own key. *)
C24_ConcurrentWorkers ==
    \A w \in 1..2 :
       /\ co.workers[w].state # "raised"
       /\ co.workers[w].state \in {"stored", "done"}
          => \E k \in 1..Len(db) : db[k].task_key = WorkerTask(w)
       /\ co.workers[w].state = "done"
          => /\ co.workers[w].res[1].seq # None
             /\ co.workers[w].res[1].stored_as = WorkerTask(w)

(* C31: a lookup consults the exact normalized key, then the index
   candidates, then the Durable Store, and moves on to the next stage exactly
   when the earlier ones gave no qualifying sequence; an exact-key entry that
   fails the success-rate gate is followed by the candidate stage before the
   Durable Store is scanned. *)
StageOrders ==
    {<<"exact">>, <<"exact", "candidates">>, <<"exact", "candidates", "durable">>}

C31_StageOrder ==
    (got # None /\ current_user_id # None) => got[1].stages \in StageOrders

(* the Volatile Store entry written for the request that just ended *)
RequestEntry == redis[Key("sequence", current_user_id[1], _normalize_task(request))].data[1]

RecordedRun ==
    /\ pc = "done"
    /\ action_results # <<>>
    /\ stored # None
    /\ ~stored[1].raised
    /\ current_user_id # None
    /\ Key("sequence", current_user_id[1], _normalize_task(request)) \in DOMAIN redis

(* C32: for every action execute_request recorded, the per-action statistics
   written by store_sequence_with_results count it as a success exactly when
   its recorded success flag was true (a failed action adds to total but not
   to success), and a run with some failed and some succeeded actions leaves
   a partial-success record. *)
C32_StatsFollowFlags ==
    RecordedRun
    => LET meta == RequestEntry.metadata
           stats == meta.action_success_rates[1].stats
       IN /\ Len(stats) = Len(action_results)
          /\ \A k \in 1..Len(stats) :
                /\ stats[k].total = 1
                /\ stats[k].success = (IF action_results[k].success THEN 1 ELSE 0)
          /\ (~AllFailed(action_results) /\ ~AllSucceeded(action_results))
                => meta.partial_successes[1] # <<>>

(* the canonical verb tokens of a task text: the canonical forms of the
   synonym groups whose phrases or words occur in it *)
VerbTokens(task) ==
    LET ws == LowerAll(task)
    IN {canonical_forms(g) :
          g \in ({PhraseGroup(ws[k], ws[k+1]) : k \in 1..(Len(ws) - 1)}
                 \cup {WordGroup(ws[k]) : k \in 1..Len(ws)}) \ {"none"}}

Compared == calc # None /\ calc[1].op = "similarity"

(* C33: two tasks that share a canonical verb token (go to, find, click,
   type) score |common words| / max(|words1|, |words2|) over their normalized
   word sets, and 0 when they share none; two identical tasks with a canonical
   verb, a navigation verb such as "go to" included, score 1.0. *)
C33_SimilarityScore ==
    Compared
    => LET c == calc[1]
           words1 == WordSet(c.normalized1)
           words2 == WordSet(c.normalized2)
           shared == VerbTokens(c.task1) \cap VerbTokens(c.task2)
       IN /\ shared # {}
               => /\ c.score.den = Max(Cardinality(words1), Cardinality(words2))
                  /\ c.score.num = Cardinality(words1 \cap words2)
          /\ shared = {} => c.score.num = 0
          /\ (c.task1 = c.task2 /\ shared # {}) => c.score.num = c.score.den

(* two task texts that differ only by letter case, whitespace and noise
   words *)
SameButNoise(task1, task2) ==
    Filter(LowerAll(task1), noise_words) = Filter(LowerAll(task2), noise_words)

(* the verb phrase a text starts with (one or two words) and what follows *)
Leading(task) ==
    LET ws == LowerAll(task)
    IN (IF Len(ws) >= 2
        THEN {[group |-> PhraseGroup(ws[1], ws[2]), rest |-> SubSeq(ws, 3, Len(ws))]}
        ELSE {})
       \cup (IF Len(ws) >= 1
             THEN {[group |-> WordGroup(ws[1]), rest |-> SubSeq(ws, 2, Len(ws))]}
             ELSE {})

(* two task texts that differ only by a verb phrase replaced with another of
   the same synonym group *)
SynonymSwap(task1, task2) ==
    \E a \in Leading(task1), b \in Leading(task2) :
        /\ a.group # "none"
        /\ a.group = b.group
        /\ SameButNoise(a.rest, b.rest)

(* C34: two task texts that differ only by a verb phrase replaced with
   another of its synonym group, by letter case, by whitespace or by noise
   words have the same normalized form, hence the same Volatile Store
   sequence key and the same exact-match index entry. *)
C34_NormalizedAlike ==
    (Compared /\ (SameButNoise(calc[1].task1, calc[1].task2)
                  \/ SynonymSwap(calc[1].task1, calc[1].task2)))
    => /\ calc[1].normalized1 = calc[1].normalized2
       /\ \A kind \in {"sequence", "normalized"} :
             Key(kind, "default_user", calc[1].normalized1)
               = Key(kind, "default_user", calc[1].normalized2)

(* the index keys get_similar_task reads for a task: its normalized form,
   its entities and its verbs *)
IndexKeys(user, task) ==
    LET normalized == _normalize_task(task)
    IN {Key("normalized", user, normalized)}
       \cup {Key("entity", user, <<e>>) : e \in Entities(normalized)}
       \cup {Key("verb", user, <<v>>) : v \in Verbs(normalized)}

HasEntry(r, k) == k \in DOMAIN r /\ r[k].data # None

(* an index entry of the task names a sequence key that has no entry *)
DanglingReference(r, cur, task) ==
    /\ cur # None
    /\ \E x \in IndexKeys(cur[1], task) \cap DOMAIN r :
          \E k \in r[x].members : ~HasEntry(r, k)

(* the Volatile Store without the references to missing entries *)
Purged(r) ==
    LET kept(x) == {k \in r[x].members : HasEntry(r, k)}
        keys == {x \in DOMAIN r : r[x].members = {} \/ kept(x) # {}}
    IN [x \in keys |-> [r[x] EXCEPT !.members = kept(x)]]

(* C35: when an index entry (normalized, entity or verb) names a sequence
   key whose Volatile Store entry has expired or is missing, get_similar_task
   treats the reference as no match and goes on with the remaining candidates
   and the Durable Store scan, without raising: it returns what it returns
   when the reference is not there. *)
C35_DanglingReference ==
    [][(/\ got' # None
        /\ DanglingReference(redis, current_user_id, got'[1].task)
        /\ GetSimilarTask(got'[1].task))
       => got'[1].res \in get_similar_task(Purged(redis), ConnRows, db_conn,
                                           current_user_id, got'[1].task)]_vars

(* a lookup over a dangling reference that the Durable Store scan answered *)
C35_Witness ==
    /\ got # None
    /\ DanglingReference(redis, current_user_id, got[1].task)
    /\ got[1].res.seq # None
    /\ got[1].res.from = "db"

Built == calc # None /\ calc[1].op = "store"

(* the actions of the call whose submitted flag is true, and their indices
   in ascending order *)
Succeeded(c) == {k \in 1..Len(c.actions) : k <= Len(c.results) /\ c.results[k].val}

RECURSIVE IndicesOf(_, _, _)
IndicesOf(set, k, n) ==
    IF k > n THEN <<>>
    ELSE (IF k \in set THEN <<k - 1>> ELSE <<>>) \o IndicesOf(set, k + 1, n)

(* the partial-success records the call wrote to the Durable Store row and
   to the Volatile Store entry *)
WrittenPartials(c) ==
    {c.out[1].db[Len(c.out[1].db)].metadata.partial_successes[1],
     c.out[1].redis[Key("sequence", "default_user", c.normalized1)]
         .data[1].metadata.partial_successes[1]}

(* C36: store_sequence_with_results appends a partial-success record, holding
   exactly the indices of the succeeded actions, if and only if at least one
   but not all of the submitted actions succeeded; it records none when all or
   none succeeded. *)
C36_PartialSuccess ==
    Built
    => LET c == calc[1]
           partial == Succeeded(c) # {} /\ Succeeded(c) # 1..Len(c.actions)
           expected == IF partial
                       THEN <<IndicesOf(Succeeded(c), 1, Len(c.actions))>>
                       ELSE <<>>
           Indices(ps) == [k \in 1..Len(ps) |-> ps[k].successful_actions]
       IN /\ Indices(c.sequence[1].partial_successes) = expected
          /\ \A ps \in WrittenPartials(c) : Indices(ps) = expected

(* a call with one succeeded and one failed action, and its record *)
C36_Witness ==
    /\ Built
    /\ Len(calc[1].actions) = 2
    /\ Succeeded(calc[1]) = {2}
    /\ Len(calc[1].sequence[1].partial_successes) = 1
    /\ calc[1].sequence[1].partial_successes[1].successful_actions = <<1>>

(* success_rate within [0, 1] (in percent), every statistics key an index of
   the action list (position k holds key k-1), success_count <= total_count *)
WellFormed(success_rate, stats, as) ==
    /\ 0 <= success_rate /\ success_rate <= 100
    /\ Len(stats.stats) <= Len(as)
    /\ \A k \in 1..Len(stats.stats) :
          /\ 0 <= stats.stats[k].success
          /\ stats.stats[k].success <= stats.stats[k].total

(* C37: every ActionSequence the cache builds or stores has
   0 <= success_rate <= 1, per-action statistics whose every key is a valid
   index into its action list, and success_count <= total_count in each
   statistic. *)
C37_WellFormed ==
    Built
    => LET seq == calc[1].sequence[1]
           row == calc[1].out[1].db[Len(calc[1].out[1].db)]
           entry == calc[1].out[1].redis[Key("sequence", "default_user",
                                             calc[1].normalized1)].data[1]
       IN /\ WellFormed(seq.success_rate, seq.action_success_rates, seq.actions)
          /\ WellFormed(row.success_rate, row.metadata.action_success_rates[1], row.actions)
          /\ WellFormed(0, entry.metadata.action_success_rates[1], entry.actions)

(* a sequence built from more flags than actions, a confirmed run *)
C37_Witness ==
    /\ Built
    /\ Len(calc[1].results) > Len(calc[1].actions)
    /\ Len(calc[1].sequence[1].action_success_rates.stats) = Len(calc[1].actions)
    /\ calc[1].sequence[1].success_rate = 100

(* C38: every execute_request call terminates: the Planner invocations and
   the executed actions of one call are bounded for every behaviour of the
   Planner and of the Runner, a Planner that keeps returning non-empty plans
   whose actions all succeed included.  With the attempts bounded by
   max_retries, a call that is about to invoke the Planner has made fewer
   than MaxPlannerCalls (> max_retries) invocations. *)
C38_Terminates ==
    (pc = "planning" /\ retry_count < max_retries) => plannerCalls < MaxPlannerCalls

(* C39: end_session does not degrade the statistics in the Durable Store:
   for a task it flushes, the execution_count and the success_rate of the
   Durable Store rows of the task are, after end_session, the values
   store_sequence_with_results last persisted. *)
C39_FlushKeepsStatistics ==
    (EndedWithLastStore /\ ended[1].last[1].db_ok /\ ~ended[1].last[1].raised)
    => LET last == ended[1].last[1]
       IN \A k \in 1..Len(db) :
             db[k].task_key = last.task
             => /\ db[k].execution_count = 1
                /\ db[k].success_rate = (IF last.user_confirmed THEN 100 ELSE 0)

(* C40: whenever the cache treats a session as active (current_user_id is
   set, so its operations do not answer as without a session), the marker
   session:{user} is in the Volatile Store with a TTL above 0; once the TTL of
   the marker has lapsed without cache activity no session is active until
   start_session is called again. *)
C40_MarkerWhileActive ==
    current_user_id # None
    => /\ Key("session", current_user_id[1], <<>>) \in DOMAIN redis
       /\ redis[Key("session", current_user_id[1], <<>>)].ttl > 0

====
